---------------------------- MODULE Spec2Model ----------------------------
(***************************************************************************)
(* A model of config2spec/policies/policy.py: the PolicyType enumeration, *)
(* the PolicySource / PolicyDestination value objects, the Policy         *)
(* hierarchy, the factory Policy.get_policy and the record reader         *)
(* Policy.from_df.                                                         *)
(*                                                                         *)
(* Python strings are sequences of one-character strings.  Python values  *)
(* are records carrying the name of their class in the field "tag", so    *)
(* that the dynamic dispatch of ==, <, str() and hash() can be followed.  *)
(* A call that raises is recorded as a value tagged "raise".              *)
(***************************************************************************)
EXTENDS Integers, Sequences, FiniteSets, TLC

VARIABLES
    tSelf, tOther, tRes,      \* PolicyType operations: receiver, operand, results
    hashSeed,                 \* the interpreter's per-process string hash secret
    dest, text, parsed, dpc,  \* PolicyDestination rendering and parsing
    lhs, rhs, pRes,           \* Policy comparison, rendering and hashing
    args, ret, fpc            \* Policy.get_policy / Policy.from_df calls

typeVars == <<tSelf, tOther, tRes>>
destVars == <<dest, text, parsed, dpc>>
polVars  == <<lhs, rhs, pRes>>
facVars  == <<args, ret, fpc>>
vars == <<tSelf, tOther, tRes, hashSeed, dest, text, parsed, dpc,
          lhs, rhs, pRes, args, ret, fpc>>

----------------------------------------------------------------------------
(* Bounds of the model *)

MaxShortLen == 5    \* longest arbitrary string over {".", "a"} compared with a kind
MaxSeed == 1        \* hash secrets 0..MaxSeed
MaxDestLen == 4     \* characters in the three fields of a rendered destination
MaxTextLen == 4     \* longest arbitrary string handed to the parser
MaxSources == 1     \* longest source list of a compared policy
MaxDfDests == 2     \* most destinations encoded in a record

----------------------------------------------------------------------------
(* Python values *)

None == [tag |-> "NoneType"]
NotImplemented == [tag |-> "NotImplementedType"]
Unset == [tag |-> "unset"]
StrV(s) == [tag |-> "str", s |-> s]
IntV(n) == [tag |-> "int", n |-> n]
BoolV(b) == [tag |-> "bool", b |-> b]
FloatV(n) == [tag |-> "float", f |-> n]    \* the float n.0, n a whole number
Pair(l, r) == [left |-> l, right |-> r]
Raise(e) == [tag |-> "raise", exc |-> e]
Enum(k) == [tag |-> "PolicyType", name |-> k]

IsStr(x) == x.tag = "str"
IsRaise(x) == x.tag = "raise"

SeqsUpTo(A, n) == UNION {[1..k -> A] : k \in 0..n}

Min(S) == CHOOSE x \in S : \A y \in S : x <= y
Max(S) == CHOOSE x \in S : \A y \in S : x >= y

RECURSIVE Split(_, _)
\* str.split(sep): the parts between the leftmost non-overlapping occurrences
Split(s, sep) ==
    LET n == Len(sep)
        hits == {i \in 1..(Len(s) - n + 1) : SubSeq(s, i, i + n - 1) = sep}
    IN  IF hits = {} THEN <<s>>
        ELSE LET i == Min(hits)
             IN  <<SubSeq(s, 1, i - 1)>> \o Split(SubSeq(s, i + n, Len(s)), sep)

RECURSIVE Join(_, _)
\* sep.join(parts)
Join(sep, parts) ==
    IF parts = <<>> THEN <<>>
    ELSE IF Len(parts) = 1 THEN parts[1]
    ELSE parts[1] \o sep \o Join(sep, Tail(parts))

----------------------------------------------------------------------------
(* class PolicyType(Enum) *)

PolicyTypes == <<"Reachability", "Isolation", "Waypoint", "LoadBalancingSimple",
                 "LoadBalancingEdgeDisjoint", "LoadBalancingNodeDisjoint">>

Kinds == {PolicyTypes[i] : i \in DOMAIN PolicyTypes}

\* the member's value
TypeValue(k) ==
    CASE k = "Reachability" -> 1
      [] k = "Isolation" -> 2
      [] k = "Waypoint" -> 3
      [] k = "LoadBalancingSimple" -> 4
      [] k = "LoadBalancingEdgeDisjoint" -> 5
      [] k = "LoadBalancingNodeDisjoint" -> 6

\* self.__class__.__name__
ClassName == <<"P", "o", "l", "i", "c", "y", "T", "y", "p", "e">>

\* self.name
MemberName(k) ==
    CASE k = "Reachability" ->
            <<"R", "e", "a", "c", "h", "a", "b", "i", "l", "i", "t", "y">>
      [] k = "Isolation" -> <<"I", "s", "o", "l", "a", "t", "i", "o", "n">>
      [] k = "Waypoint" -> <<"W", "a", "y", "p", "o", "i", "n", "t">>
      [] k = "LoadBalancingSimple" ->
            <<"L", "o", "a", "d", "B", "a", "l", "a", "n", "c", "i", "n", "g",
              "S", "i", "m", "p", "l", "e">>
      [] k = "LoadBalancingEdgeDisjoint" ->
            <<"L", "o", "a", "d", "B", "a", "l", "a", "n", "c", "i", "n", "g",
              "E", "d", "g", "e", "D", "i", "s", "j", "o", "i", "n", "t">>
      [] k = "LoadBalancingNodeDisjoint" ->
            <<"L", "o", "a", "d", "B", "a", "l", "a", "n", "c", "i", "n", "g",
              "N", "o", "d", "e", "D", "i", "s", "j", "o", "i", "n", "t">>

\* str(member) and format(member, ""): "PolicyType.<Name>"
TypeStr(k) == ClassName \o <<".">> \o MemberName(k)

\* Enum inherits object.__eq__: identity, otherwise NotImplemented
ObjectEq(self, other) ==
    IF other.tag = "PolicyType" /\ other.name = self.name
    THEN BoolV(TRUE) ELSE NotImplemented

TypeEqSwapped(self, other) ==
    IF IsStr(other)
    THEN LET parts == Split(other.s, <<".">>)
         IN  IF Len(parts) = 2
             THEN IF parts[2] = ClassName /\ parts[1] = MemberName(self.name)
                  THEN BoolV(TRUE)
                  ELSE ObjectEq(self, other)
             ELSE ObjectEq(self, other)
    ELSE ObjectEq(self, other)

\* PolicyType.__eq__
TypeEq(self, other) ==
    IF IsStr(other)
    THEN LET parts == Split(other.s, <<".">>)
         IN  IF Len(parts) = 2       \* otherwise the unpacking raises ValueError
             THEN IF parts[1] = ClassName /\ parts[2] = MemberName(self.name)
                  THEN BoolV(TRUE)
                  ELSE ObjectEq(self, other)
             ELSE ObjectEq(self, other)   \* except ValueError: pass
    ELSE ObjectEq(self, other)

TypeLtNonStrict(self, other) ==
    IF other.tag = "PolicyType"
    THEN BoolV(TypeValue(self.name) <= TypeValue(other.name))
    ELSE NotImplemented

\* PolicyType.__lt__
TypeLt(self, other) ==
    IF other.tag = "PolicyType"
    THEN BoolV(TypeValue(self.name) < TypeValue(other.name))
    ELSE NotImplemented

\* PolicyType.__le__
TypeLe(self, other) ==
    IF other.tag = "PolicyType"
    THEN BoolV(TypeValue(self.name) <= TypeValue(other.name))
    ELSE NotImplemented

\* PolicyType.__gt__
TypeGt(self, other) ==
    IF other.tag = "PolicyType"
    THEN BoolV(TypeValue(self.name) > TypeValue(other.name))
    ELSE NotImplemented

\* PolicyType.__ge__
TypeGe(self, other) ==
    IF other.tag = "PolicyType"
    THEN BoolV(TypeValue(self.name) >= TypeValue(other.name))
    ELSE NotImplemented

\* PolicyType.__hash__: hash(self.value); a small int hashes to itself
TypeHash(self) == IntV(TypeValue(self.name))

----------------------------------------------------------------------------
(* hash() of a str: a keyed hash of the characters.  The interpreter's    *)
(* keyed hash is abstracted to a seeded polynomial over a narrow word.    *)

CharTable ==
    <<"a", "b", "c", "d", "e", "f", "g", "h", "i", "j", "k", "l", "m", "n",
      "o", "p", "q", "r", "s", "t", "u", "v", "w", "x", "y", "z",
      "B", "D", "E", "F", "I", "L", "N", "P", "R", "S", "T", "W",
      "0", "1", "2", "3", "4", "5", "6", "7", "8", "9",
      ".", ":", " ", "(", ")", "{", "}", ",", "-", ">", "=", "/", "\n">>

CharCode ==
    [c \in {CharTable[i] : i \in DOMAIN CharTable} |->
        CHOOSE i \in DOMAIN CharTable : CharTable[i] = c]

Ord(c) == CharCode[c]

HashMod == 2 ^ 15
RECURSIVE PowMod(_)
\* 31 ^ n modulo HashMod, by squaring
PowMod(n) ==
    IF n = 0 THEN 1
    ELSE LET h == PowMod(n \div 2)
             sq == (h * h) % HashMod
         IN  IF n % 2 = 1 THEN (sq * 31) % HashMod ELSE sq

RECURSIVE Poly(_)
\* the characters of s as the digits of a number in base 31, modulo
\* HashMod; the string is halved so that the evaluation stays shallow
Poly(s) ==
    IF s = <<>> THEN 0
    ELSE IF Len(s) = 1 THEN Ord(s[1])
    ELSE LET m == Len(s) \div 2
             right == SubSeq(s, m + 1, Len(s))
         IN  (Poly(SubSeq(s, 1, m)) * PowMod(Len(right)) + Poly(right)) % HashMod

StrHash(seed, s) == (seed * PowMod(Len(s)) + Poly(s)) % HashMod

----------------------------------------------------------------------------
(* class PolicySource *)

PolicySource(router) == [tag |-> "PolicySource", router |-> router]

\* PolicySource.__str__
SourceStr(self) == self.router

\* PolicySource.__eq__
SourceEq(self, other) ==
    IF other.tag = "PolicySource"
    THEN BoolV(self.router = other.router)
    ELSE BoolV(FALSE)

----------------------------------------------------------------------------
(* class PolicyDestination *)

PolicyDestination(router, interface, subnet) ==
    [tag |-> "PolicyDestination", router |-> router, interface |-> interface,
     subnet |-> subnet]

\* PolicyDestination.__str__: "{router}:{interface} ({subnet})"
DestStr(self) ==
    self.router \o <<":">> \o self.interface \o <<" ", "(">> \o self.subnet
        \o <<")">>

\* PolicyDestination.__eq__
DestEq(self, other) ==
    IF other.tag = "PolicyDestination"
    THEN BoolV(/\ self.router = other.router
               /\ self.interface = other.interface
               /\ self.subnet = other.subnet)
    ELSE BoolV(FALSE)

\* s[from..to] holds no character c: a run of the class [^c]
NoChar(s, from, to, c) == \A p \in from..to : s[p] # c

\* '$': the end of the string, or just before a newline that ends it
AtEnd(s, p) == p = Len(s) + 1 \/ (p = Len(s) /\ s[p] = "\n")

\* '^(?P<router>[^:]+):': the lengths i of a router group followed by ':'
RouterLens(s) ==
    {i \in 1..(Len(s) - 1) : NoChar(s, 1, i, ":") /\ s[i + 1] = ":"}

IfaceLensNoColon(s, i) ==
    {j \in 1..(Len(s) - i - 3) :
        /\ NoChar(s, i + 2, i + 1 + j, " ")
        /\ NoChar(s, i + 2, i + 1 + j, ":")
        /\ s[i + 2 + j] = " "
        /\ s[i + 3 + j] = "("}

\* '(?P<interface>[^ ]+) \(': the lengths j of an interface group that
\* starts after the router's ':' and is followed by ' ('
IfaceLens(s, i) ==
    {j \in 1..(Len(s) - i - 3) :
        /\ NoChar(s, i + 2, i + 1 + j, " ")
        /\ s[i + 2 + j] = " "
        /\ s[i + 3 + j] = "("}

\* '(?P<subnet>[^)]+)\)$': the lengths k of a subnet group that starts
\* after ' (' and is followed by ')' and the end
SubnetLens(s, i, j) ==
    {k \in 1..(Len(s) - i - j - 4) :
        /\ NoChar(s, i + j + 4, i + j + 3 + k, ")")
        /\ s[i + j + 4 + k] = ")"
        /\ AtEnd(s, i + j + 5 + k)}

\* re.match(pattern, str): the group lengths of the match the backtracking
\* search finds first (each group greedy, the earlier group preferred), or
\* <<>> when nothing matches
Match(s) ==
    LET is == {i \in RouterLens(s) :
                  \E j \in IfaceLens(s, i) : SubnetLens(s, i, j) # {}}
    IN  IF is = {} THEN <<>>
        ELSE LET i == Max(is)
                 j == Max({x \in IfaceLens(s, i) : SubnetLens(s, i, x) # {}})
                 k == Max(SubnetLens(s, i, j))
             IN  <<i, j, k>>

\* PolicyDestination.from_string
FromString(s) ==
    LET m == Match(s)
    IN  IF m # <<>>
        THEN PolicyDestination(SubSeq(s, 1, m[1]),
                               SubSeq(s, m[1] + 2, m[1] + 1 + m[2]),
                               SubSeq(s, m[1] + m[2] + 4, m[1] + m[2] + 3 + m[3]))
        ELSE None

----------------------------------------------------------------------------
(* == on the values held in a policy's fields, as the interpreter          *)
(* dispatches it: the left operand's __eq__, then the right operand's when *)
(* the left answers NotImplemented, then identity.                         *)

\* the numeric classes, which compare by value across classes
Numbers == {"int", "bool", "float"}

Num(x) ==
    CASE x.tag = "bool" -> IF x.b THEN 1 ELSE 0
      [] x.tag = "int" -> x.n
      [] x.tag = "float" -> x.f

\* type(a).__eq__(a, b)
DunderEq(a, b) ==
    CASE a.tag = "PolicyType" -> TypeEq(a, b)
      [] a.tag = "PolicySource" -> SourceEq(a, b)
      [] a.tag = "PolicyDestination" -> DestEq(a, b)
      [] a.tag = "str" ->
            IF b.tag = "str" THEN BoolV(a.s = b.s) ELSE NotImplemented
      [] a.tag \in Numbers ->
            IF b.tag \in Numbers THEN BoolV(Num(a) = Num(b))
            ELSE NotImplemented
      [] a.tag = "NoneType" ->
            IF b.tag = "NoneType" THEN BoolV(TRUE) ELSE NotImplemented

\* a == b
PyEq(a, b) ==
    LET r == DunderEq(a, b)
    IN  IF r # NotImplemented THEN r
        ELSE LET r2 == DunderEq(b, a)
             IN  IF r2 # NotImplemented THEN r2
                 ELSE BoolV(FALSE)    \* distinct objects: the identity default

\* list.__eq__: same length and equal elements
ListEq(xs, ys) ==
    BoolV(/\ Len(xs) = Len(ys)
          /\ \A n \in 1..Len(xs) : PyEq(xs[n], ys[n]) = BoolV(TRUE))

\* self == other on a PolicyType receiver
TypeEquals(self, other) == PyEq(self, other)

\* self <op> other for an ordering: the receiver's answer, else the answer
\* of the operand's reflected method, else TypeError
OrderResult(forward, backward) ==
    IF forward # NotImplemented THEN forward
    ELSE IF backward # NotImplemented THEN backward
    ELSE Raise("TypeError")

\* self < other on a PolicyType receiver (a str operand declines every
\* comparison with an enum member)
TypeLess(self, other) ==
    OrderResult(TypeLt(self, other),
                IF other.tag = "PolicyType" THEN TypeGt(other, self)
                ELSE NotImplemented)

\* self <= other
TypeLessEq(self, other) ==
    OrderResult(TypeLe(self, other),
                IF other.tag = "PolicyType" THEN TypeGe(other, self)
                ELSE NotImplemented)

\* self > other
TypeGreater(self, other) ==
    OrderResult(TypeGt(self, other),
                IF other.tag = "PolicyType" THEN TypeLt(other, self)
                ELSE NotImplemented)

\* self >= other
TypeGreaterEq(self, other) ==
    OrderResult(TypeGe(self, other),
                IF other.tag = "PolicyType" THEN TypeLe(other, self)
                ELSE NotImplemented)

\* hash(x) for an enum member or a str
PyHash(seed, x) ==
    IF x.tag = "PolicyType" THEN TypeHash(x) ELSE IntV(StrHash(seed, x.s))

----------------------------------------------------------------------------
(* str() of the values held in a policy's fields *)

Digit(n) == <<"0", "1", "2", "3", "4", "5", "6", "7", "8", "9">>[n + 1]

RECURSIVE Decimal(_)
\* str(n) for an int n >= 0
Decimal(n) == IF n < 10 THEN <<Digit(n)>> ELSE Decimal(n \div 10) \o <<Digit(n % 10)>>

PyStr(x) ==
    CASE x.tag = "str" -> x.s
      [] x.tag = "int" -> Decimal(x.n)
      [] x.tag = "float" -> Decimal(x.f) \o <<".", "0">>
      [] x.tag = "bool" -> IF x.b THEN <<"T", "r", "u", "e">>
                           ELSE <<"F", "a", "l", "s", "e">>
      [] x.tag = "NoneType" -> <<"N", "o", "n", "e">>
      [] x.tag = "PolicyType" -> TypeStr(x.name)
      [] x.tag = "PolicySource" -> SourceStr(x)
      [] x.tag = "PolicyDestination" -> DestStr(x)

----------------------------------------------------------------------------
(* class Policy and its subclasses *)

\* Policy.__init__
Policy(type, sources, destinations, negate) ==
    [tag |-> "Policy", type |-> type, sources |-> sources,
     destinations |-> destinations, negate |-> negate]

\* ReachabilityPolicy.__init__
ReachabilityPolicy(sources, destinations, negate) ==
    [tag |-> "ReachabilityPolicy",
     type |-> StrV(<<"r", "e", "a", "c", "h", "a", "b", "i", "l", "i", "t", "y">>),
     sources |-> sources, destinations |-> destinations, negate |-> negate]

\* LoadBalancingPolicy.__init__
LoadBalancingPolicy(sources, destinations, num_paths) ==
    [tag |-> "LoadBalancingPolicy",
     type |-> StrV(<<"l", "o", "a", "d", "b", "a", "l", "a", "n", "c", "i", "n", "g">>),
     sources |-> sources, destinations |-> destinations, negate |-> BoolV(FALSE),
     num_paths |-> num_paths]

\* WaypointPolicy.__init__
WaypointPolicy(sources, destinations, waypoints) ==
    [tag |-> "WaypointPolicy",
     type |-> StrV(<<"w", "a", "y", "p", "o", "i", "n", "t">>),
     sources |-> sources, destinations |-> destinations, negate |-> BoolV(FALSE),
     waypoints |-> waypoints]

PolicyClasses ==
    {"Policy", "ReachabilityPolicy", "LoadBalancingPolicy", "WaypointPolicy"}

\* the attributes an object of the model carries (a str, an int and None
\* carry none of the attributes a policy has)
HasAttr(o, a) ==
    /\ o.tag \in PolicyClasses \cup {"PolicySource", "PolicyDestination"}
    /\ a \in DOMAIN o \ {"tag"}

\* Policy.__str__
BaseStr(self) ==
    PyStr(self.type) \o <<" ", "p", "o", "l", "i", "c", "y", ":", " ">>
      \o <<"{">>
      \o Join(<<",", " ">>, [n \in DOMAIN self.sources |-> PyStr(self.sources[n])])
      \o <<"}">> \o <<"-", ">">> \o <<"{">>
      \o Join(<<",", " ">>,
              [n \in DOMAIN self.destinations |-> PyStr(self.destinations[n])])
      \o <<"}">> \o <<",", " ", "n", "e", "g", "a", "t", "e", "=">>
      \o PyStr(self.negate)

\* LoadBalancingPolicy.__str__: '%s - NumPaths %d'; %d takes a number only
LoadBalancingStr(self) ==
    IF self.num_paths.tag \in Numbers
    THEN StrV(BaseStr(self)
              \o <<" ", "-", " ", "N", "u", "m", "P", "a", "t", "h", "s", " ">>
              \o Decimal(Num(self.num_paths)))
    ELSE Raise("TypeError")

\* WaypointPolicy.__str__
WaypointStr(self) ==
    StrV(BaseStr(self)
         \o <<" ", "-", " ", "W", "a", "y", "p", "o", "i", "n", "t", "s", " ">>
         \o PyStr(self.waypoints))

\* str(p)
PolicyStr(p) ==
    CASE p.tag = "LoadBalancingPolicy" -> LoadBalancingStr(p)
      [] p.tag = "WaypointPolicy" -> WaypointStr(p)
      [] OTHER -> StrV(BaseStr(p))

\* hash(p): hash(self.__str__()) in every class
PolicyHash(seed, p) ==
    LET s == PolicyStr(p)
    IN  IF IsRaise(s) THEN s ELSE IntV(StrHash(seed, s.s))

\* Policy.__eq__: the four comparisons in order, each reading an attribute
\* of other, which raises AttributeError where other has none
BaseEq(self, other) ==
    IF ~HasAttr(other, "type") THEN Raise("AttributeError")
    ELSE IF PyEq(self.type, other.type) # BoolV(TRUE) THEN BoolV(FALSE)
    ELSE IF ~HasAttr(other, "sources") THEN Raise("AttributeError")
    ELSE IF ListEq(self.sources, other.sources) # BoolV(TRUE) THEN BoolV(FALSE)
    ELSE IF ~HasAttr(other, "destinations") THEN Raise("AttributeError")
    ELSE IF ListEq(self.destinations, other.destinations) # BoolV(TRUE)
         THEN BoolV(FALSE)
    ELSE IF ~HasAttr(other, "negate") THEN Raise("AttributeError")
    ELSE PyEq(self.negate, other.negate)

\* LoadBalancingPolicy.__eq__
LoadBalancingEq(self, other) ==
    LET b == BaseEq(self, other)
    IN  IF IsRaise(b) THEN b
        ELSE IF b # BoolV(TRUE) THEN BoolV(FALSE)
        ELSE IF ~HasAttr(other, "num_paths") THEN Raise("AttributeError")
        ELSE PyEq(self.num_paths, other.num_paths)

\* WaypointPolicy.__eq__
WaypointEq(self, other) ==
    LET b == BaseEq(self, other)
    IN  IF IsRaise(b) THEN b
        ELSE IF b # BoolV(TRUE) THEN BoolV(FALSE)
        ELSE IF ~HasAttr(other, "waypoints") THEN Raise("AttributeError")
        ELSE PyEq(self.waypoints, other.waypoints)

\* type(self).__eq__(self, other)
PolicyDunderEq(self, other) ==
    CASE self.tag = "LoadBalancingPolicy" -> LoadBalancingEq(self, other)
      [] self.tag = "WaypointPolicy" -> WaypointEq(self, other)
      [] OTHER -> BaseEq(self, other)

\* p == o for a policy p: the interpreter asks o first when o's class is a
\* proper subclass of p's, and p otherwise; neither answers NotImplemented
PolicyEquals(p, o) ==
    IF p.tag = "Policy" /\ o.tag \in PolicyClasses \ {"Policy"}
    THEN PolicyDunderEq(o, p)
    ELSE PolicyDunderEq(p, o)

GetPolicyNegateSwapped(policy_type, sources, destinations, specifics) ==
    IF PyEq(policy_type, Enum("Reachability")) = BoolV(TRUE)
    THEN ReachabilityPolicy(sources, destinations, BoolV(TRUE))
    ELSE IF PyEq(policy_type, Enum("Isolation")) = BoolV(TRUE)
    THEN ReachabilityPolicy(sources, destinations, BoolV(FALSE))
    ELSE IF PyEq(policy_type, Enum("Waypoint")) = BoolV(TRUE)
    THEN WaypointPolicy(sources, destinations, specifics)
    ELSE IF PyEq(policy_type, Enum("LoadBalancingSimple")) = BoolV(TRUE)
    THEN LoadBalancingPolicy(sources, destinations, specifics)
    ELSE None

GetPolicyAnyLoadBalancing(policy_type, sources, destinations, specifics) ==
    IF PyEq(policy_type, Enum("Reachability")) = BoolV(TRUE)
    THEN ReachabilityPolicy(sources, destinations, BoolV(FALSE))
    ELSE IF PyEq(policy_type, Enum("Isolation")) = BoolV(TRUE)
    THEN ReachabilityPolicy(sources, destinations, BoolV(TRUE))
    ELSE IF PyEq(policy_type, Enum("Waypoint")) = BoolV(TRUE)
    THEN WaypointPolicy(sources, destinations, specifics)
    ELSE LoadBalancingPolicy(sources, destinations, specifics)

\* Policy.get_policy
GetPolicy(policy_type, sources, destinations, specifics) ==
    IF PyEq(policy_type, Enum("Reachability")) = BoolV(TRUE)
    THEN ReachabilityPolicy(sources, destinations, BoolV(FALSE))
    ELSE IF PyEq(policy_type, Enum("Isolation")) = BoolV(TRUE)
    THEN ReachabilityPolicy(sources, destinations, BoolV(TRUE))
    ELSE IF PyEq(policy_type, Enum("Waypoint")) = BoolV(TRUE)
    THEN WaypointPolicy(sources, destinations, specifics)
    ELSE IF PyEq(policy_type, Enum("LoadBalancingSimple")) = BoolV(TRUE)
    THEN LoadBalancingPolicy(sources, destinations, specifics)
    ELSE None

Digits == {"0", "1", "2", "3", "4", "5", "6", "7", "8", "9"}

\* str.isdigit(): not empty and every character a digit
IsDigit(s) == s # <<>> /\ \A n \in 1..Len(s) : s[n] \in Digits

DigitValue(c) == CHOOSE n \in 0..9 : Digit(n) = c

RECURSIVE ParseInt(_)
\* int(s) for a string of decimal digits
ParseInt(s) ==
    IF s = <<>> THEN 0
    ELSE ParseInt(SubSeq(s, 1, Len(s) - 1)) * 10 + DigitValue(s[Len(s)])

FromDfSplitOnComma(df) ==
    LET str_destinations == Split(SubSeq(df.Destinations.s, 2,
                                         Len(df.Destinations.s) - 1),
                                  <<",">>)
        destinations == [n \in DOMAIN str_destinations |->
                            FromString(str_destinations[n])]
        specifics == IF IsDigit(df.specifics.s)
                     THEN IntV(ParseInt(df.specifics.s))
                     ELSE df.specifics
    IN  GetPolicy(df.type, <<df.source>>, destinations, specifics)

\* Policy.from_df
FromDf(df) ==
    LET type == df.type
        sources == <<df.source>>
        \* df.Destinations[1:-1].split(', ')
        str_destinations == Split(SubSeq(df.Destinations.s, 2,
                                         Len(df.Destinations.s) - 1),
                                  <<",", " ">>)
        destinations == [n \in DOMAIN str_destinations |->
                            FromString(str_destinations[n])]
        specifics == IF IsDigit(df.specifics.s)
                     THEN IntV(ParseInt(df.specifics.s))
                     ELSE df.specifics
    IN  GetPolicy(type, sources, destinations, specifics)

----------------------------------------------------------------------------
(* Operands compared with a kind *)

Deletions(s) ==
    {SubSeq(s, 1, i - 1) \o SubSeq(s, i + 1, Len(s)) : i \in 1..Len(s)}

Insertions(s, c) ==
    {SubSeq(s, 1, i) \o <<c>> \o SubSeq(s, i + 1, Len(s)) : i \in 0..Len(s)}

TypeStrings ==
    {TypeStr(k) : k \in Kinds} \cup {MemberName(k) : k \in Kinds}
    \cup UNION {Deletions(TypeStr(k)) : k \in Kinds}
    \cup UNION {Insertions(TypeStr(k), ".") : k \in Kinds}
    \cup SeqsUpTo({".", "a"}, MaxShortLen)

TypeOperands == {Enum(k) : k \in Kinds} \cup {StrV(s) : s \in TypeStrings}

TypeOps == {"eq", "lt", "le", "gt", "ge", "hash"}

----------------------------------------------------------------------------
(* Idle values of the variables a specification does not use *)

TypeIdle == tSelf = None /\ tOther = None /\ tRes = Unset
DestIdle == dest = None /\ text = None /\ parsed = Unset /\ dpc = "idle"
PolIdle == lhs = None /\ rhs = None /\ pRes = Unset
FacIdle == args = None /\ ret = Unset /\ fpc = "idle"

----------------------------------------------------------------------------
(* Specification SpecType: a kind is compared with an operand *)

InitType ==
    /\ tSelf \in {Enum(k) : k \in Kinds}
    /\ tOther \in TypeOperands
    /\ tRes = [o \in TypeOps |-> Unset]
    /\ hashSeed \in 0..MaxSeed
    /\ DestIdle /\ PolIdle /\ FacIdle

TypeStep(o, r) ==
    /\ tRes[o] = Unset
    /\ tRes' = [tRes EXCEPT ![o] = r]
    /\ UNCHANGED <<tSelf, tOther, hashSeed, destVars, polVars, facVars>>

DoTypeEq == TypeStep("eq", TypeEquals(tSelf, tOther))
DoTypeLt == TypeStep("lt", TypeLess(tSelf, tOther))
DoTypeLe == TypeStep("le", TypeLessEq(tSelf, tOther))
DoTypeGt == TypeStep("gt", TypeGreater(tSelf, tOther))
DoTypeGe == TypeStep("ge", TypeGreaterEq(tSelf, tOther))
DoTypeHash ==
    TypeStep("hash", Pair(PyHash(hashSeed, tSelf), PyHash(hashSeed, tOther)))

NextType ==
    \/ DoTypeEq
    \/ DoTypeLt
    \/ DoTypeLe
    \/ DoTypeGt
    \/ DoTypeGe
    \/ DoTypeHash

SpecType == InitType /\ [][NextType]_vars

True == BoolV(TRUE)
False == BoolV(FALSE)

DotCount(s) == Cardinality({p \in 1..Len(s) : s[p] = "."})

\* C7: for a kind k and a string s, k == s is True exactly when s is
\* "PolicyType." followed by k's member name; it is False, and nothing is
\* raised, for every other string, among them the textual form of another
\* kind and every string that does not hold exactly one '.'.
C7_TypeEqualsString ==
    (IsStr(tOther) /\ tRes["eq"] # Unset) =>
        /\ tRes["eq"] \in {True, False}
        /\ (tRes["eq"] = True) <=>
               (tOther.s = ClassName \o <<".">> \o MemberName(tSelf.name))
        /\ (\E k \in Kinds \ {tSelf.name} : tOther.s = TypeStr(k)) =>
               tRes["eq"] = False
        /\ DotCount(tOther.s) # 1 => tRes["eq"] = False

\* C7 witness: the longest member name compared with its own textual form
C7_Witness ==
    /\ tSelf = Enum("LoadBalancingEdgeDisjoint")
    /\ tOther = StrV(TypeStr("LoadBalancingEdgeDisjoint"))
    /\ tRes["eq"] = True

\* C8: a kind and its textual form compare equal and have equal hashes
C8_HashAgreesWithTextualForm ==
    (/\ tOther = StrV(TypeStr(tSelf.name))
     /\ tRes["eq"] # Unset
     /\ tRes["hash"] # Unset) =>
        /\ tRes["eq"] = True
        /\ tRes["hash"].left = tRes["hash"].right

DeclIndex(k) == CHOOSE i \in DOMAIN PolicyTypes : PolicyTypes[i] = k

\* C10: for two kinds a and b exactly one of a < b, a == b, a > b holds, the
\* order is the order of declaration, and <= and >= are the reflexive
\* closures of < and >.
C10_OrderTotal ==
    (/\ tOther.tag = "PolicyType"
     /\ \A o \in {"eq", "lt", "le", "gt", "ge"} : tRes[o] # Unset) =>
        /\ \A o \in {"eq", "lt", "le", "gt", "ge"} : tRes[o] \in {True, False}
        /\ Cardinality({o \in {"lt", "eq", "gt"} : tRes[o] = True}) = 1
        /\ (tRes["lt"] = True) <=> (DeclIndex(tSelf.name) < DeclIndex(tOther.name))
        /\ (tRes["gt"] = True) <=> (DeclIndex(tSelf.name) > DeclIndex(tOther.name))
        /\ (tRes["le"] = True) <=> (tRes["lt"] = True \/ tRes["eq"] = True)
        /\ (tRes["ge"] = True) <=> (tRes["gt"] = True \/ tRes["eq"] = True)

\* C10 witness: Waypoint compared with Isolation, which is declared before it
C10_Witness ==
    /\ tSelf = Enum("Waypoint")
    /\ tOther = Enum("Isolation")
    /\ tRes["gt"] = True /\ tRes["ge"] = True
    /\ tRes["lt"] = False /\ tRes["le"] = False /\ tRes["eq"] = False


----------------------------------------------------------------------------
(* Specification SpecDest: a destination is rendered and the text parsed, *)
(* or a text is parsed as it comes.                                        *)

Alphabet == {"a", ":", " ", "(", ")", "\n"}

\* every split of a string of at most MaxDestLen characters into three fields
DestInputs ==
    {PolicyDestination(SubSeq(s, 1, i), SubSeq(s, i + 1, j),
                       SubSeq(s, j + 1, Len(s))) :
        <<s, i, j>> \in {x \in SeqsUpTo(Alphabet, MaxDestLen) \X (0..MaxDestLen)
                                  \X (0..MaxDestLen) :
                             x[2] <= x[3] /\ x[3] <= Len(x[1])}}

UnitDests ==
    {PolicyDestination(<<r>>, <<i>>, <<n>>) : r, i, n \in Alphabet}

\* arbitrary short texts, and renderings with one more character before or
\* after them
TextInputs ==
    SeqsUpTo(Alphabet, MaxTextLen)
    \cup {DestStr(d) \o <<c>> : d \in UnitDests, c \in Alphabet}
    \cup {<<c>> \o DestStr(d) : d \in UnitDests, c \in Alphabet}

InitDest ==
    /\ \/ dest \in DestInputs /\ text = None /\ dpc = "new"
       \/ dest = None /\ text \in {StrV(s) : s \in TextInputs} /\ dpc = "text"
    /\ parsed = Unset
    /\ hashSeed = 0
    /\ TypeIdle /\ PolIdle /\ FacIdle

\* str(dest)
Render ==
    /\ dpc = "new"
    /\ text' = StrV(DestStr(dest))
    /\ dpc' = "text"
    /\ UNCHANGED <<dest, parsed, hashSeed, typeVars, polVars, facVars>>

\* PolicyDestination.from_string(text)
Parse ==
    /\ dpc = "text"
    /\ parsed' = FromString(text.s)
    /\ dpc' = "done"
    /\ UNCHANGED <<dest, text, hashSeed, typeVars, polVars, facVars>>

NextDest ==
    \/ Render
    \/ Parse

SpecDest == InitDest /\ [][NextDest]_vars

WellFormed(d) ==
    /\ d.router # <<>> /\ d.interface # <<>> /\ d.subnet # <<>>
    /\ NoChar(d.router, 1, Len(d.router), ":")
    /\ NoChar(d.interface, 1, Len(d.interface), " ")
    /\ NoChar(d.subnet, 1, Len(d.subnet), ")")

\* C1: for a destination d whose fields are non-empty, with no ':' in the
\* router, no space in the interface and no ')' in the subnet,
\* from_string(str(d)) is a destination equal to d, field by field.
C1_RoundTrip ==
    (dpc = "done" /\ dest # None /\ WellFormed(dest)) =>
        /\ parsed.tag = "PolicyDestination"
        /\ DestEq(parsed, dest) = True
        /\ parsed.router = dest.router
        /\ parsed.interface = dest.interface
        /\ parsed.subnet = dest.subnet

\* C1 witness: a round trip whose router holds a space and whose interface
\* holds a colon
C1_Witness ==
    /\ dpc = "done"
    /\ dest = PolicyDestination(<<" ">>, <<":", "(">>, <<"\n">>)
    /\ parsed = dest

\* s is <router>:<interface> (<subnet>) and nothing more
HasForm(s) ==
    \E r, i, n \in {SubSeq(s, a, b) : a, b \in 1..Len(s)} :
        /\ s = r \o <<":">> \o i \o <<" ", "(">> \o n \o <<")">>
        /\ WellFormed(PolicyDestination(r, i, n))

\* C9: from_string(s) returns a destination if and only if s has the form
\* <router>:<interface> (<subnet>) with non-empty fields, no ':' in the
\* router, no space in the interface and no ')' in the subnet; for every
\* other string it returns None.
C9_ParseIffForm ==
    dpc = "done" =>
        /\ parsed.tag \in {"PolicyDestination", "NoneType"}
        /\ (parsed # None) <=> HasForm(text.s)


----------------------------------------------------------------------------
(* Specification SpecPolicy: a policy is compared with another object, and *)
(* the two are rendered and hashed.                                        *)

R1 == <<"r", "1">>
R2 == <<"r", "2">>
Eth0 == <<"e", "t", "h", "0">>
Eth1 == <<"e", "t", "h", "1">>
Subnet24 == <<"1", "0", ".", "0", ".", "0", ".", "0", "/", "2", "4">>

Dest1 == PolicyDestination(R2, Eth0, Subnet24)
Dest2 == PolicyDestination(R2, Eth1, Subnet24)

SourcePool == {PolicySource(R1), StrV(R1)}
SourceLists == SeqsUpTo(SourcePool, MaxSources)
DestLists == {<<Dest1>>, <<None, Dest2>>}

\* the type handed to the Policy constructor: the names the subclasses use,
\* an enum member and its textual form
BaseTypes ==
    {StrV(<<"r", "e", "a", "c", "h", "a", "b", "i", "l", "i", "t", "y">>),
     StrV(<<"w", "a", "y", "p", "o", "i", "n", "t">>),
     StrV(<<"l", "o", "a", "d", "b", "a", "l", "a", "n", "c", "i", "n", "g">>),
     Enum("Reachability"), StrV(TypeStr("Reachability"))}

WaypointValues == {IntV(1), FloatV(1), StrV(<<"1">>), StrV(R1)}
NumPathValues == {IntV(1), FloatV(1), IntV(12)}

Policies ==
    {Policy(t, S, D, BoolV(n)) :
        t \in BaseTypes, S \in SourceLists, D \in DestLists, n \in BOOLEAN}
    \cup {ReachabilityPolicy(S, D, BoolV(n)) :
        S \in SourceLists, D \in DestLists, n \in BOOLEAN}
    \cup {WaypointPolicy(S, D, w) :
        S \in SourceLists, D \in DestLists, w \in WaypointValues}
    \cup {LoadBalancingPolicy(S, D, n) :
        S \in SourceLists, D \in DestLists, n \in NumPathValues}
    \cup {GetPolicy(Enum(k), S, D, x) :
        k \in {"Reachability", "Isolation"}, S \in SourceLists, D \in DestLists,
        x \in {None}}
    \cup {GetPolicy(Enum("Waypoint"), S, D, x) :
        S \in SourceLists, D \in DestLists, x \in WaypointValues}
    \cup {GetPolicy(Enum("LoadBalancingSimple"), S, D, x) :
        S \in SourceLists, D \in DestLists, x \in NumPathValues}

\* objects that are no policy
NonPolicies ==
    {StrV(<<"x">>), IntV(1), None, PolicySource(R1), Dest1}

PolicyOps == {"eq", "str", "hash"}

InitPolicy ==
    /\ lhs \in Policies
    /\ rhs \in Policies \cup NonPolicies
    /\ pRes = [o \in PolicyOps |-> Unset]
    /\ hashSeed = 0
    /\ TypeIdle /\ DestIdle /\ FacIdle

PolicyStep(o, r) ==
    /\ pRes[o] = Unset
    /\ pRes' = [pRes EXCEPT ![o] = r]
    /\ UNCHANGED <<lhs, rhs, hashSeed, typeVars, destVars, facVars>>

\* lhs == rhs
DoPolicyEq == PolicyStep("eq", PolicyEquals(lhs, rhs))

\* str(lhs), str(rhs)
DoPolicyStr ==
    /\ rhs.tag \in PolicyClasses
    /\ PolicyStep("str", Pair(PolicyStr(lhs), PolicyStr(rhs)))

\* hash(lhs), hash(rhs)
DoPolicyHash ==
    /\ rhs.tag \in PolicyClasses
    /\ PolicyStep("hash", Pair(PolicyHash(hashSeed, lhs), PolicyHash(hashSeed, rhs)))

NextPolicy ==
    \/ DoPolicyEq
    \/ DoPolicyStr
    \/ DoPolicyHash

SpecPolicy == InitPolicy /\ [][NextPolicy]_vars

\* C2: for policies p and q built by the constructors or by get_policy, base
\* and variant objects mixed, if p == q is True then str(p) and str(q) are
\* the same string and hash(p) equals hash(q).
C2_EqualPoliciesRenderAndHashAlike ==
    (/\ rhs.tag \in PolicyClasses
     /\ pRes["eq"] = True) =>
        /\ pRes["str"] # Unset =>
              /\ IsStr(pRes["str"].left)
              /\ pRes["str"].left = pRes["str"].right
        /\ pRes["hash"] # Unset =>
              /\ pRes["hash"].left.tag = "int"
              /\ pRes["hash"].left = pRes["hash"].right

\* C5: for a policy p and an object o of an unrelated type, p == o returns
\* False and never raises.
C5_EqualsNonPolicyIsFalse ==
    (rhs \in NonPolicies /\ pRes["eq"] # Unset) => pRes["eq"] = False

----------------------------------------------------------------------------
(* Specification SpecFactory: Policy.get_policy is called with a kind, or  *)
(* Policy.from_df with a record.                                           *)

Supported == {"Reachability", "Isolation", "Waypoint", "LoadBalancingSimple"}

\* what a caller may hand over as the kind: an enum member, its textual
\* form, its bare name, or something else
FactoryTypes ==
    {Enum(k) : k \in Kinds} \cup {StrV(TypeStr(k)) : k \in Kinds}
    \cup {StrV(MemberName(k)) : k \in Kinds}
    \cup {StrV(<<"g", "a", "r", "b", "a", "g", "e">>), None}

FactorySpecifics == {IntV(0), IntV(2), StrV(R1), None}

DestCommaRouter == PolicyDestination(<<"a", ",", " ", "b">>, <<"e">>, <<"s">>)
DestSpaceIface == PolicyDestination(<<"r">>, <<"e", " ">>, <<"s">>)

DfDestPool == {Dest1, Dest2, DestCommaRouter, DestSpaceIface}

\* "{" + ", ".join(str(d) for d in ds) + "}"
Encode(ds) ==
    <<"{">> \o Join(<<",", " ">>, [n \in DOMAIN ds |-> DestStr(ds[n])]) \o <<"}">>

DfDestinations ==
    {Encode(ds) : ds \in SeqsUpTo(DfDestPool, MaxDfDests)}
    \cup {<<>>, DestStr(Dest1)}

DfSpecifics ==
    {<<"0">>, <<"2">>, <<"1", "2">>, <<"0", "0", "7">>, <<"w">>, <<>>}

Records ==
    {[type |-> t, source |-> StrV(R1), Destinations |-> StrV(D),
      specifics |-> StrV(x)] :
        t \in FactoryTypes, D \in DfDestinations, x \in DfSpecifics}

InitFactory ==
    /\ \/ args \in {[fn |-> "get_policy", policy_type |-> t, sources |-> S,
                     destinations |-> D, specifics |-> x] :
                       t \in FactoryTypes, S \in SourceLists, D \in DestLists,
                       x \in FactorySpecifics}
       \/ args \in {[fn |-> "from_df", df |-> r] : r \in Records}
    /\ ret = Unset
    /\ fpc = "call"
    /\ hashSeed = 0
    /\ TypeIdle /\ DestIdle /\ PolIdle

\* Policy.get_policy(policy_type, sources, destinations, specifics)
CallGetPolicy ==
    /\ fpc = "call"
    /\ args.fn = "get_policy"
    /\ ret' = GetPolicy(args.policy_type, args.sources, args.destinations,
                        args.specifics)
    /\ fpc' = "done"
    /\ UNCHANGED <<args, hashSeed, typeVars, destVars, polVars>>

\* Policy.from_df(df)
CallFromDf ==
    /\ fpc = "call"
    /\ args.fn = "from_df"
    /\ ret' = FromDf(args.df)
    /\ fpc' = "done"
    /\ UNCHANGED <<args, hashSeed, typeVars, destVars, polVars>>

NextFactory ==
    \/ CallGetPolicy
    \/ CallFromDf

SpecFactory == InitFactory /\ [][NextFactory]_vars

Reachability == <<"r", "e", "a", "c", "h", "a", "b", "i", "l", "i", "t", "y">>

\* C3: get_policy with the member Reachability returns a ReachabilityPolicy
\* of type "reachability" with negate False; with Isolation the same with
\* negate True; with Waypoint a WaypointPolicy whose waypoints are the
\* specifics; with LoadBalancingSimple a LoadBalancingPolicy whose num_paths
\* are the specifics; the sources and destinations are those handed over,
\* and waypoint and load-balancing policies have negate False.
C3_FactoryDispatch ==
    (fpc = "done" /\ args.fn = "get_policy"
        /\ args.policy_type.tag = "PolicyType"
        /\ args.policy_type.name \in Supported) =>
        LET k == args.policy_type.name
        IN  /\ ret.sources = args.sources
            /\ ret.destinations = args.destinations
            /\ k = "Reachability" =>
                  /\ ret.tag = "ReachabilityPolicy"
                  /\ ret.type = StrV(Reachability)
                  /\ ret.negate = False
            /\ k = "Isolation" =>
                  /\ ret.tag = "ReachabilityPolicy"
                  /\ ret.type = StrV(Reachability)
                  /\ ret.negate = True
            /\ k = "Waypoint" =>
                  /\ ret.tag = "WaypointPolicy"
                  /\ ret.waypoints = args.specifics
                  /\ ret.negate = False
            /\ k = "LoadBalancingSimple" =>
                  /\ ret.tag = "LoadBalancingPolicy"
                  /\ ret.num_paths = args.specifics
                  /\ ret.negate = False

\* C3 witness: an isolation policy has come out of the factory
C3_Witness ==
    /\ fpc = "done" /\ args.fn = "get_policy"
    /\ args.policy_type = Enum("Isolation")
    /\ ret.tag = "ReachabilityPolicy" /\ ret.negate = True
    /\ ret.destinations = <<None, Dest2>>

\* C6: for a kind that is none of Reachability, Isolation, Waypoint and
\* LoadBalancingSimple, get_policy returns None whatever the sources,
\* destinations and specifics.
C6_UnsupportedKindIsNone ==
    (fpc = "done" /\ args.fn = "get_policy"
        /\ args.policy_type.tag = "PolicyType"
        /\ args.policy_type.name \notin Supported) =>
        ret = None

\* C6 witness: the factory was asked for an edge-disjoint load balancing
C6_Witness ==
    /\ fpc = "done" /\ args.fn = "get_policy"
    /\ args.policy_type = Enum("LoadBalancingEdgeDisjoint")
    /\ args.specifics = IntV(2)
    /\ ret = None

Contains(s, sub) ==
    \E n \in 1..(Len(s) - Len(sub) + 1) : SubSeq(s, n, n + Len(sub) - 1) = sub

\* the record of the example, with the type written as given
ExampleRecord(type) ==
    [type |-> StrV(type), source |-> StrV(R1),
     Destinations |-> StrV(<<"{", "r", "2", ":", "e", "t", "h", "0", " ", "(",
                            "1", "0", ".", "0", ".", "0", ".", "0", "/", "2",
                            "4", ")", "}">>),
     specifics |-> StrV(<<"0">>)]

ExampleResult ==
    /\ ret.tag = "ReachabilityPolicy"
    /\ ret.sources = <<StrV(R1)>>
    /\ ret.destinations = <<PolicyDestination(R2, Eth0, Subnet24)>>

\* the lists of destinations a record of the model may encode
EncodedLists == SeqsUpTo(DfDestPool, MaxDfDests) \ {<<>>}

\* C4 as stated: the record with type "Reachability", source "r1",
\* Destinations "{r2:eth0 (10.0.0.0/24)}" and specifics "0" gives a
\* ReachabilityPolicy with the one source r1 and the one destination; and a
\* record whose type names a supported kind, whose Destinations encode n >= 1
\* well-formed destinations and whose specifics are digits gives
\* get_policy(kind, [source], the destinations, int(specifics)).
C4_FromDfAsStated ==
    (fpc = "done" /\ args.fn = "from_df") =>
        /\ args.df = ExampleRecord(MemberName("Reachability")) => ExampleResult
        /\ \A k \in Supported, ds \in EncodedLists :
              (/\ args.df.type \in {StrV(MemberName(k)), StrV(TypeStr(k)), Enum(k)}
               /\ args.df.Destinations.s = Encode(ds)
               /\ \A n \in DOMAIN ds : WellFormed(ds[n])
               /\ IsDigit(args.df.specifics.s)) =>
                  ret = GetPolicy(Enum(k), <<args.df.source>>, ds,
                                  IntV(ParseInt(args.df.specifics.s)))

\* C4 amended: the same with the type written "PolicyType.Reachability" in
\* the example, and in general with a type that is the member or its textual
\* form "PolicyType.<Name>" and destinations whose encodings hold no ", ".
C4_FromDfTextualType ==
    (fpc = "done" /\ args.fn = "from_df") =>
        /\ args.df = ExampleRecord(TypeStr("Reachability")) => ExampleResult
        /\ \A k \in Supported, ds \in EncodedLists :
              (/\ args.df.type \in {StrV(TypeStr(k)), Enum(k)}
               /\ args.df.Destinations.s = Encode(ds)
               /\ \A n \in DOMAIN ds :
                     WellFormed(ds[n]) /\ ~Contains(DestStr(ds[n]), <<",", " ">>)
               /\ IsDigit(args.df.specifics.s)) =>
                  ret = GetPolicy(Enum(k), <<args.df.source>>, ds,
                                  IntV(ParseInt(args.df.specifics.s)))

\* C4 witness: the example's record, its type in the textual form, was read
C4_Witness ==
    /\ fpc = "done" /\ args.fn = "from_df"
    /\ args.df = ExampleRecord(TypeStr("Reachability"))
    /\ ret = ReachabilityPolicy(<<StrV(R1)>>, <<Dest1>>, False)

=============================================================================
